---- MODULE Spec2Model ----
(***************************************************************************)
(* pandas/core/groupby/base.py: the allowlists of methods exposed on the   *)
(* groupby objects, and the two mixins (ShallowMixin, GotItemMixin) that   *)
(* build a new grouped view from an existing one.                          *)
(*                                                                         *)
(* Objects live in a heap: `views` is a sequence of view records and a     *)
(* view's identity is its index.  A call is one action; `last` records the *)
(* call and its outcome (the returned view, or the exception raised).      *)
(***************************************************************************)
EXTENDS Integers, Sequences, FiniteSets, TLC

VARIABLES views, last, query

vars == <<views, last, query>>

(***************************** bounds **************************************)
MaxViews == 3
MaxKeyLen == 2

(************************* allowlists (base.py 93-224) *********************)
plotting_methods == {"plot", "hist"}

\* Mutant: the plotting methods are not added to the common allowlist.
common_apply_allowlist_noplot ==
    {"quantile", "fillna", "mad", "take", "idxmax", "idxmin", "tshift",
     "skew", "corr", "cov", "diff"}

common_apply_allowlist ==
    {"quantile", "fillna", "mad", "take", "idxmax", "idxmin", "tshift",
     "skew", "corr", "cov", "diff"} \cup plotting_methods

series_apply_allowlist ==
    (common_apply_allowlist
       \cup {"nlargest", "nsmallest", "is_monotonic_increasing",
             "is_monotonic_decreasing"})
    \cup {"dtype", "unique"}

dataframe_apply_allowlist == common_apply_allowlist \cup {"dtypes", "corrwith"}

cythonized_kernels == {"cumprod", "cumsum", "shift", "cummin", "cummax"}

cython_cast_blocklist == {"rank", "count", "size", "idxmin", "idxmax"}

\* Mutant: "diff" is entered in the reduction list too.
reduction_kernels_diff ==
    {"all", "any", "corrwith", "count", "diff", "first", "idxmax", "idxmin",
     "last", "mad", "max", "mean", "median", "min", "ngroup", "nth",
     "nunique", "prod", "quantile", "sem", "size", "skew", "std", "sum",
     "var"}

reduction_kernels ==
    {"all", "any", "corrwith", "count", "first", "idxmax", "idxmin", "last",
     "mad", "max", "mean", "median", "min", "ngroup", "nth", "nunique",
     "prod", "quantile", "sem", "size", "skew", "std", "sum", "var"}

transformation_kernels ==
    {"backfill", "bfill", "cumcount", "cummax", "cummin", "cumprod",
     "cumsum", "diff", "ffill", "fillna", "pad", "pct_change", "rank",
     "shift", "tshift"}

groupby_other_methods ==
    {"agg", "aggregate", "apply", "boxplot", "corr", "cov", "describe",
     "dtypes", "expanding", "ewm", "filter", "get_group", "groups", "head",
     "hist", "indices", "ndim", "ngroups", "ohlc", "pipe", "plot",
     "resample", "rolling", "tail", "take", "transform", "sample"}

transform_kernel_allowlist == reduction_kernels \cup transformation_kernels

\* The module-level names of base.py that hold an allowlist.
TableNames ==
    {"plotting_methods", "common_apply_allowlist", "series_apply_allowlist",
     "dataframe_apply_allowlist", "cythonized_kernels",
     "cython_cast_blocklist", "reduction_kernels", "transformation_kernels",
     "groupby_other_methods", "transform_kernel_allowlist"}

Table(t) ==
    CASE t = "plotting_methods" -> plotting_methods
      [] t = "common_apply_allowlist" -> common_apply_allowlist
      [] t = "series_apply_allowlist" -> series_apply_allowlist
      [] t = "dataframe_apply_allowlist" -> dataframe_apply_allowlist
      [] t = "cythonized_kernels" -> cythonized_kernels
      [] t = "cython_cast_blocklist" -> cython_cast_blocklist
      [] t = "reduction_kernels" -> reduction_kernels
      [] t = "transformation_kernels" -> transformation_kernels
      [] t = "groupby_other_methods" -> groupby_other_methods
      [] t = "transform_kernel_allowlist" -> transform_kernel_allowlist

\* Every name of some allowlist, and one name of none.
OperationNames == (UNION {Table(t) : t \in TableNames}) \cup {"totally_unknown_name"}

\* `name in table` for a caller of the module.
Member(t, n) == n \in Table(t)

NoQuery == [table |-> "none", name |-> "none", found |-> FALSE]


(***************************** data model *********************************)
\* Column labels: "a" is a column of the frame, "z" is of none.
AllCols == {"a", "z"}

\* Values a configuration attribute can hold.
Values == {"v0", "v1"}

\* The tabular container (an external collaborator): its ndim and columns.
Data(ndim, cols) == [tag |-> "data", id |-> 0, ndim |-> ndim, cols |-> cols]
DF == Data(2, {"a"})
SER == Data(1, {})
RawData == {DF, SER}

\* A reference to a grouped view used as an `obj` argument.
ViewRef(i) == [tag |-> "view", id |-> i, ndim |-> 0, cols |-> {}]

\* Keys: a scalar label, or a list of distinct labels.  NoKey is None.
NoKey == [tag |-> "none", cols |-> << >>]
Scalar(c) == [tag |-> "scalar", cols |-> <<c>>]
ListKey(s) == [tag |-> "list", cols |-> s]
Lists ==
    {s \in UNION {[1..n -> AllCols] : n \in 1..MaxKeyLen} :
        \A i, j \in DOMAIN s : s[i] = s[j] => i = j}
Keys == {Scalar(c) : c \in AllCols} \cup {ListKey(s) : s \in Lists}

Range(s) == {s[i] : i \in DOMAIN s}

\* pandas.core.dtypes.common.is_scalar / is_list_like on a key.
is_scalar(key) == key.tag = "scalar"
is_list_like(key) == key.tag = "list"

\* `key in subset` for a container: membership in its column labels.
contains(subset, key) == key.cols[1] \in subset.cols

\* The grouping object (an external collaborator): which rows go to which
\* group (grouper), the columns of the object it groups, and the selection
\* it has already been narrowed to.  NoGroupby is None.
Groupers == {"g1"}
Grouping(g, cols, sel) == [grouper |-> g, cols |-> cols, selection |-> sel]
NoGroupby == Grouping("none", {}, NoKey)
RootGroupings ==
    {Grouping(g, DF.cols, sel) : g \in Groupers, sel \in {NoKey, Scalar("a")}}
      \cup {NoGroupby}

\* self._groupby[key]: None is not subscriptable; a grouping that already
\* has a selection raises IndexError; a label that is no column raises
\* KeyError; otherwise the grouping narrowed to key.
groupby_getitem(g, key) ==
    IF g = NoGroupby THEN [status |-> "TypeError", groupby |-> g]
    ELSE IF g.selection # NoKey THEN [status |-> "IndexError", groupby |-> g]
    ELSE IF ~(Range(key.cols) \subseteq g.cols)
         THEN [status |-> "KeyError", groupby |-> g]
    ELSE [status |-> "ok", groupby |-> Grouping(g.grouper, g.cols, key)]

\* The concrete view classes: KindASub derives from KindA, KindB from
\* neither.  A class inherits the _attributes its base declares.
Kinds == {"KindA", "KindASub", "KindB"}
bases(kind) == IF kind = "KindASub" THEN {"KindASub", "KindA"} ELSE {kind}
attributes(kind) ==
    IF "KindA" \in bases(kind) THEN {"window", "closed"} ELSE {"closed"}

EmptyKw == [a \in {} |-> "v0"]

\* type(self)(obj, groupby=..., parent=..., **kwargs): a fresh instance
\* holding the keyword values as its attributes (the class default for a
\* keyword not given), no cache and no selection.  parent 0 is None.
construct(kind, obj, groupby, parent, kwargs) ==
    [kind      |-> kind,
     obj       |-> obj,
     attrs     |-> [a \in attributes(kind) |->
                      IF a \in DOMAIN kwargs THEN kwargs[a] ELSE "v0"],
     groupby   |-> groupby,
     parent    |-> parent,
     cache     |-> {},
     selection |-> NoKey]

\* PandasObject._constructor: the class of self.
constructor(vs, self) == vs[self].kind

\* isinstance(obj, cls) for an obj that is a view or a container: the
\* class of obj is cls or derives from it.
isinstance(vs, obj, cls) == obj.tag = "view" /\ cls \in bases(vs[obj.id].kind)

\* PandasObject._reset_cache() on view i.
reset_cache(vs, i) == [vs EXCEPT ![i].cache = {}]


(************************ ShallowMixin (base.py 22-38) *********************)
\* Mutant: the isinstance test is dropped and obj is wrapped as given.
shallow_copy_obj_wrap(vs, self, obj) == obj

\* Lines 30-31: an obj that is an instance of self._constructor is replaced
\* by the object it wraps.
shallow_copy_obj(vs, self, obj) ==
    IF isinstance(vs, obj, constructor(vs, self)) THEN vs[obj.id].obj ELSE obj

\* Mutant: the value held by self replaces a supplied keyword.
shallow_copy_kwargs_self(vs, self, kwargs) ==
    [a \in DOMAIN kwargs \cup attributes(vs[self].kind) |->
        IF a \in attributes(vs[self].kind) THEN vs[self].attrs[a] ELSE kwargs[a]]

\* Lines 32-37: every declared attribute missing from kwargs is read from
\* self; a supplied keyword is kept.
shallow_copy_kwargs(vs, self, kwargs) ==
    [a \in DOMAIN kwargs \cup attributes(vs[self].kind) |->
        IF a \in DOMAIN kwargs THEN kwargs[a] ELSE vs[self].attrs[a]]

\* _shallow_copy(self, obj, **kwargs): the heap with the new instance
\* appended, and its index.  The constructor gets no groupby and no parent.
shallow_copy(vs, self, obj, kwargs) ==
    LET o == shallow_copy_obj(vs, self, obj)
        kw == shallow_copy_kwargs(vs, self, kwargs)
        new == construct(constructor(vs, self), o, NoGroupby, 0, kw)
    IN [status |-> "ok", views |-> Append(vs, new), ret |-> Len(vs) + 1]

(************************ GotItemMixin (base.py 41-90) *********************)
NoSubset == [tag |-> "none", id |-> 0, ndim |-> 0, cols |-> {}]

\* Lines 62-64: subset defaults to self.obj.
gotitem_subset(vs, self, subset) ==
    IF subset = NoSubset THEN vs[self].obj ELSE subset

\* Mutant: the keywords are not handed on, the new view takes the defaults.
gotitem_kwargs_none(vs, self) == EmptyKw

\* Lines 69-71: kwargs = {attr: getattr(self, attr) for attr in _attributes}.
gotitem_kwargs(vs, self) ==
    [a \in attributes(vs[self].kind) |-> vs[self].attrs[a]]

\* Mutant: a bare except, every failure of the indexing falls back.
gotitem_groupby_bare(vs, self, key) ==
    LET r == groupby_getitem(vs[self].groupby, key)
    IN IF r.status # "ok"
       THEN [status |-> "ok", groupby |-> vs[self].groupby]
       ELSE r

\* Mutant: the grouping is never indexed, the parent's is always reused.
gotitem_groupby_reuse(vs, self, key) ==
    LET r == groupby_getitem(vs[self].groupby, key)
    IN IF r.status \in {"ok", "IndexError"}
       THEN [status |-> "ok", groupby |-> vs[self].groupby]
       ELSE r

\* Lines 74-79: try self._groupby[key]; on IndexError reuse self._groupby;
\* any other exception leaves the function.
gotitem_groupby(vs, self, key) ==
    LET r == groupby_getitem(vs[self].groupby, key)
    IN IF r.status = "IndexError"
       THEN [status |-> "ok", groupby |-> vs[self].groupby]
       ELSE r

\* Mutant: `key in subset` is not tested.
gotitem_selects_any(subset, key) ==
    subset.ndim = 2 /\ (is_scalar(key) \/ is_list_like(key))

\* Line 88: subset.ndim == 2 and
\*          (is_scalar(key) and key in subset or is_list_like(key)).
gotitem_selects(subset, key) ==
    subset.ndim = 2
      /\ ((is_scalar(key) /\ contains(subset, key)) \/ is_list_like(key))

\* Mutant: the cache is reset before self is rebound, on the parent.
reset_cache_target_parent(self, new) == self

\* Lines 84-87: self is rebound to the new instance, whose cache is reset.
reset_cache_target(self, new) == new

\* Mutant: the selection is stored before self is rebound, on the parent.
selection_target_parent(self, new) == self

\* Lines 84-89: self._selection = key is stored on the new instance.
selection_target(self, new) == new

\* _gotitem(self, key, ndim, subset): on success the heap with the new
\* instance appended, and its index; on an exception the heap as it was.
\* The ndim argument is not read by the function.
gotitem(vs, self, key, subset) ==
    LET sub == gotitem_subset(vs, self, subset)
        kw == gotitem_kwargs(vs, self)
        r == gotitem_groupby(vs, self, key)
        new == Len(vs) + 1
        vs1 == Append(vs, construct(vs[self].kind, sub, r.groupby, self, kw))
        vs2 == reset_cache(vs1, reset_cache_target(self, new))
        vs3 == IF gotitem_selects(sub, key)
               THEN [vs2 EXCEPT ![selection_target(self, new)].selection = key]
               ELSE vs2
    IN IF r.status # "ok"
       THEN [status |-> r.status, views |-> vs, ret |-> 0]
       ELSE [status |-> "ok", views |-> vs3, ret |-> new]

(******************************* actions ***********************************)
NoCall == [op |-> "none", self |-> 0, key |-> NoKey, arg |-> NoSubset,
           kwargs |-> EmptyKw, status |-> "none", ret |-> 0]

Ids == 1..Len(views)

\* A root view of class k, as constructed by a caller: over a container,
\* with a grouping of the frame (or none), with some attribute values.  It
\* may have memoized a cached property already.
Roots(k) ==
    {[construct(k, d, g, 0, kw) EXCEPT !.cache = c] :
        d \in RawData, g \in RootGroupings, c \in {{}, {"memo"}},
        kw \in [attributes(k) -> Values]}

\* view._gotitem(key, ndim, subset).  The subset acted on is a container.
GotItem(self, key, subset) ==
    /\ Len(views) < MaxViews
    /\ gotitem_subset(views, self, subset).tag = "data"
    /\ LET r == gotitem(views, self, key, subset)
       IN /\ views' = r.views
          /\ last' = [op |-> "gotitem", self |-> self, key |-> key,
                      arg |-> NoSubset, kwargs |-> EmptyKw,
                      status |-> r.status, ret |-> r.ret]
    /\ UNCHANGED query

\* view._shallow_copy(obj, **kwargs).
ShallowCopy(self, obj, kwargs) ==
    /\ Len(views) < MaxViews
    /\ LET r == shallow_copy(views, self, obj, kwargs)
       IN /\ views' = r.views
          /\ last' = [op |-> "shallow_copy", self |-> self, key |-> NoKey,
                      arg |-> obj, kwargs |-> kwargs,
                      status |-> r.status, ret |-> r.ret]
    /\ UNCHANGED query

\* A caller assigns a configuration attribute of a view.
SetAttr(self, a, val) ==
    /\ a \in attributes(views[self].kind)
    /\ views[self].attrs[a] # val
    /\ views' = [views EXCEPT ![self].attrs[a] = val]
    /\ last' = [NoCall EXCEPT !.op = "setattr", !.self = self, !.status = "ok"]
    /\ UNCHANGED query

\* A caller tests `name in table`.
Lookup(t, n) ==
    /\ query' = [table |-> t, name |-> n, found |-> Member(t, n)]
    /\ UNCHANGED <<views, last>>

Overrides(kind) ==
    UNION {[D -> Values] : D \in SUBSET attributes(kind)}

(****************** sub-selection: callers of _gotitem *********************)
InitGotItem ==
    /\ views \in {<<r>> : r \in Roots("KindA")}
    /\ last = NoCall
    /\ query = NoQuery

NextGotItem ==
    \E self \in Ids, key \in Keys, subset \in RawData \cup {NoSubset} :
       GotItem(self, key, subset)

SpecGotItem == InitGotItem /\ [][NextGotItem]_vars

(*********** sub-selection, with callers that reassign attributes **********)
\* The root is freshly constructed with the default attribute values; the
\* reassignments produce the others.
InitConfig ==
    /\ views \in {<<construct("KindB", d, g, 0, EmptyKw)>> :
                     d \in RawData, g \in RootGroupings}
    /\ last = NoCall
    /\ query = NoQuery

NextConfig ==
    \/ NextGotItem
    \/ \E self \in Ids, a \in attributes("KindB"), val \in Values :
          SetAttr(self, a, val)

SpecConfig == InitConfig /\ [][NextConfig]_vars

(**************** shallow replacement: callers of _shallow_copy ************)
\* Two root views, of one class, of a class and its subclass, or of two
\* unrelated classes, that have memoized nothing yet and group the frame
\* by its rows.
ShallowRoots(k) ==
    {r \in Roots(k) : r.cache = {} /\ r.groupby = Grouping("g1", DF.cols, NoKey)}

InitShallow ==
    /\ views \in {<<r1, r2>> : r1 \in ShallowRoots("KindA"),
                               r2 \in ShallowRoots("KindA")
                                        \cup ShallowRoots("KindASub")
                                        \cup ShallowRoots("KindB")}
    /\ last = NoCall
    /\ query = NoQuery

NextShallow ==
    \E self \in Ids, obj \in RawData \cup {ViewRef(i) : i \in Ids} :
       \E kwargs \in Overrides(views[self].kind) :
          ShallowCopy(self, obj, kwargs)

SpecShallow == InitShallow /\ [][NextShallow]_vars

(************************** the allowlists, queried ************************)
InitRegistry ==
    /\ views = << >>
    /\ last = NoCall
    /\ query = NoQuery

NextRegistry == \E t \in TableNames, n \in OperationNames : Lookup(t, n)

SpecRegistry == InitRegistry /\ [][NextRegistry]_vars

(******************************* properties ********************************)
\* The call recorded in last', read in the step that made it.
IsCall(op) == last'.op = op
Returned(op) == last'.op = op /\ last'.status = "ok"

\* C1: every _gotitem call leaves each existing view as it was -- its
\* attribute values, grouping, cache, selection, parent and data -- and a
\* call that returns hands back a new instance, distinct from the view it
\* was called on.
C1_GotItemLeavesViewUnchanged ==
    [][IsCall("gotitem") =>
         /\ \A v \in 1..Len(views) : views'[v] = views[v]
         /\ Returned("gotitem") =>
               /\ last'.ret = Len(views) + 1
               /\ Len(views') = Len(views) + 1
               /\ last'.ret # last'.self]_vars

\* C1 witness: a call returned a view with its selection set, made from a
\* view holding a memoized result.
C1_Witness ==
    /\ last.op = "gotitem" /\ last.status = "ok"
    /\ views[last.self].cache # {}
    /\ views[last.ret].selection = last.key

\* C2: _shallow_copy returns a new instance, distinct from the view, that
\* holds for every declared attribute the supplied keyword if there is
\* one and the view's current value otherwise; the view is unchanged.
C2_ShallowCopyAttributes ==
    [][IsCall("shallow_copy") =>
         LET s == last'.self
             r == last'.ret
             kw == last'.kwargs
         IN /\ last'.status = "ok"
            /\ r = Len(views) + 1 /\ Len(views') = r /\ r # s
            /\ \A v \in 1..Len(views) : views'[v] = views[v]
            /\ DOMAIN views'[r].attrs = attributes(views[s].kind)
            /\ \A a \in attributes(views[s].kind) :
                  views'[r].attrs[a] =
                     IF a \in DOMAIN kw THEN kw[a] ELSE views[s].attrs[a]]_vars

\* C2 witness: a copy of a two-attribute view where one attribute was
\* overridden with a value the view does not hold and the other, not at
\* its default, was inherited.
C2_Witness ==
    /\ last.op = "shallow_copy"
    /\ DOMAIN last.kwargs = {"closed"}
    /\ views[last.self].kind = "KindA"
    /\ views[last.self].attrs["closed"] # last.kwargs["closed"]
    /\ views[last.self].attrs["window"] = "v1"
    /\ views[last.ret].attrs["window"] = "v1"
    /\ views[last.ret].attrs["closed"] = last.kwargs["closed"]

\* C3: when indexing the parent's grouping raises IndexError the call
\* returns a view carrying the parent's grouping; when it raises anything
\* else the call raises the same and no view is produced; when it succeeds
\* the call returns.
C3_OnlyIndexErrorRecovered ==
    [][IsCall("gotitem") =>
         LET s == last'.self
             r == groupby_getitem(views[s].groupby, last'.key)
         IN /\ r.status = "IndexError" =>
                 /\ last'.status = "ok"
                 /\ views'[last'.ret].groupby = views[s].groupby
            /\ r.status \notin {"ok", "IndexError"} =>
                 /\ last'.status = r.status
                 /\ last'.ret = 0
                 /\ views' = views
            /\ r.status = "ok" => last'.status = "ok"]_vars

\* C3 witness: a call whose grouping indexing raised IndexError returned a
\* view with the parent's grouping.
C3_Witness ==
    /\ last.op = "gotitem" /\ last.status = "ok"
    /\ groupby_getitem(views[last.self].groupby, last.key).status = "IndexError"
    /\ views[last.ret].groupby = views[last.self].groupby

\* C3, the other case reached: a lookup failure left the call.
C3_WitnessKeyError ==
    /\ last.op = "gotitem" /\ last.status = "KeyError" /\ last.ret = 0

\* The labels of a key are all columns of the container.
AllInColumns(key, subset) == Range(key.cols) \subseteq subset.cols

\* C4 as claimed: the selection is set to key iff the subset is
\* two-dimensional and key is a scalar in its columns or a list whose
\* labels are all in its columns; otherwise it is unset.
C4_Original ==
    (last.op = "gotitem" /\ last.status = "ok") =>
       LET d == views[last.ret]
           k == last.key
       IN d.selection =
             IF d.obj.ndim = 2 /\ k.tag \in {"scalar", "list"}
                  /\ AllInColumns(k, d.obj)
             THEN k ELSE NoKey

\* C4 amended: the selection is set to key iff the subset is
\* two-dimensional and key is a scalar in its columns or any list-like
\* key, whether or not its labels are columns; otherwise it is unset.
C4_SelectionMarker ==
    (last.op = "gotitem" /\ last.status = "ok") =>
       LET d == views[last.ret]
           k == last.key
       IN d.selection =
             IF d.obj.ndim = 2
                  /\ ((k.tag = "scalar" /\ AllInColumns(k, d.obj))
                        \/ k.tag = "list")
             THEN k ELSE NoKey

\* C4 witness: a list key with a label that is no column became the
\* selection of a two-dimensional view.
C4_Witness ==
    /\ last.op = "gotitem" /\ last.status = "ok"
    /\ last.key.tag = "list"
    /\ ~AllInColumns(last.key, views[last.ret].obj)
    /\ views[last.ret].obj.ndim = 2
    /\ views[last.ret].selection = last.key

\* C4, the unset cases reached: a scalar that is no column of a
\* two-dimensional subset, and a key on a one-dimensional subset.
C4_WitnessUnset ==
    /\ last.op = "gotitem" /\ last.status = "ok"
    /\ last.key.tag = "scalar"
    /\ views[last.ret].obj.ndim = 2
    /\ ~AllInColumns(last.key, views[last.ret].obj)
    /\ views[last.ret].selection = NoKey

\* A two-dimensional root view was narrowed by a scalar naming one of its
\* data columns, and the call returned.
NarrowedRootByColumn ==
    /\ last.op = "gotitem" /\ last.status = "ok"
    /\ views[last.self].parent = 0
    /\ views[last.self].obj.ndim = 2
    /\ last.key.tag = "scalar"
    /\ AllInColumns(last.key, views[last.self].obj)

\* C5 as claimed: the derived view's grouping equals the root's grouping.
C5_Original ==
    NarrowedRootByColumn => views[last.ret].groupby = views[last.self].groupby

\* C5 amended: the derived view's grouping is the root's grouping itself
\* when indexing it raised IndexError, and otherwise the result of
\* indexing the root's grouping by the key: the same grouper over the same
\* object, narrowed to the key.
C5_GroupingOfNarrowedRoot ==
    NarrowedRootByColumn =>
       LET g == views[last.self].groupby
           h == views[last.ret].groupby
       IN /\ h.grouper = g.grouper
          /\ h.cols = g.cols
          /\ g.selection # NoKey => h = g
          /\ g.selection = NoKey => h.selection = last.key

\* C5 witness: the root's grouping was indexed with success and the derived
\* view holds the narrowed grouping, which is not the root's.
C5_Witness ==
    /\ NarrowedRootByColumn
    /\ views[last.self].groupby.selection = NoKey
    /\ views[last.ret].groupby.selection = last.key
    /\ views[last.ret].groupby # views[last.self].groupby

\* C5, the other case reached: IndexError, the root's grouping reused.
C5_WitnessReuse ==
    /\ NarrowedRootByColumn
    /\ views[last.self].groupby.selection # NoKey
    /\ views[last.ret].groupby = views[last.self].groupby

\* C6: no name is in both reduction_kernels and transformation_kernels,
\* and a name is in transform_kernel_allowlist iff it is in one of them.
C6_KernelTablesDisjoint ==
    /\ \A n \in reduction_kernels :
          Member("reduction_kernels", n) /\ ~Member("transformation_kernels", n)
    /\ \A n \in transformation_kernels :
          Member("transformation_kernels", n) /\ ~Member("reduction_kernels", n)
    /\ \A n \in OperationNames :
          Member("transform_kernel_allowlist", n)
             <=> (n \in reduction_kernels \/ n \in transformation_kernels)
    /\ (query.table = "transform_kernel_allowlist" /\ query.found) =>
          (query.name \in reduction_kernels)
             # (query.name \in transformation_kernels)

\* C6 witness: a transformation was looked up in the transform allowlist
\* and found.
C6_Witness ==
    /\ query.table = "transform_kernel_allowlist"
    /\ query.name = "rank"
    /\ query.found

\* C7: "plot" and "hist" are in the series allowlist and in the DataFrame
\* allowlist, and in neither reduction_kernels nor transformation_kernels.
C7_PlottingMethods ==
    /\ \A n \in {"plot", "hist"} :
          /\ n \in series_apply_allowlist
          /\ n \in dataframe_apply_allowlist
          /\ n \notin reduction_kernels
          /\ n \notin transformation_kernels
    /\ (query.name \in {"plot", "hist"}) =>
          query.found =
             (query.table \in {"plotting_methods", "common_apply_allowlist",
                               "series_apply_allowlist",
                               "dataframe_apply_allowlist",
                               "groupby_other_methods"})

\* C7 witness: "hist" was looked up in the series allowlist and found.
C7_Witness ==
    /\ query.table = "series_apply_allowlist"
    /\ query.name = "hist"
    /\ query.found

\* Views of the heap derived from parent p with selection k.
DerivedWith(vs, p, k) ==
    {d \in 1..Len(vs) : vs[d].parent = p /\ vs[d].selection = k}

\* C8: a derived view starts with the attribute values its parent holds at
\* the call; reassigning an attribute of one view afterwards changes no
\* other view; and a view derived again from the same parent with the same
\* key is a new object with the grouping of the first, and with its
\* attribute values when neither it nor the parent was reassigned.
C8_ConfigurationSnapshot ==
    [][/\ Returned("gotitem") =>
            LET s == last'.self
                r == last'.ret
            IN /\ r = Len(views) + 1
               /\ views'[r].attrs = views[s].attrs
               /\ \A d \in DerivedWith(views, s, views'[r].selection) :
                     /\ d # r
                     /\ views'[r].selection # NoKey =>
                           views'[r].groupby = views[d].groupby
                     /\ (views'[r].selection # NoKey
                           /\ views[d].attrs = views[s].attrs) =>
                           views'[r].attrs = views[d].attrs
       /\ IsCall("setattr") =>
            /\ Len(views') = Len(views)
            /\ views'[last'.self].attrs # views[last'.self].attrs
            /\ \A w \in 1..Len(views) :
                  w # last'.self => views'[w] = views[w]]_vars

\* C8 witness: two views derived from one parent with the same key hold
\* the attribute values of the derivation, and the parent has been
\* reassigned since.
C8_Witness ==
    /\ last.op = "setattr"
    /\ \E d1, d2 \in 1..Len(views) :
          /\ d1 # d2
          /\ views[d1].parent = last.self /\ views[d2].parent = last.self
          /\ views[d1].selection # NoKey
          /\ views[d1].selection = views[d2].selection
          /\ views[d1].attrs = views[d2].attrs
          /\ views[d1].groupby = views[d2].groupby
          /\ views[d1].attrs["closed"] = "v1"
          /\ views[last.self].attrs["closed"] = "v0"

\* C9: the view _gotitem returns has an empty cache, and the cache of the
\* view it was called on is as it was before the call.
C9_DerivedCacheEmpty ==
    [][Returned("gotitem") =>
         /\ views'[last'.ret].cache = {}
         /\ views'[last'.self].cache = views[last'.self].cache]_vars

\* C9 witness: a view derived from a parent holding a memoized result has
\* an empty cache and the parent still holds its result.
C9_Witness ==
    /\ last.op = "gotitem" /\ last.status = "ok"
    /\ views[last.self].cache = {"memo"}
    /\ views[last.ret].cache = {}

\* C10 as claimed: no view's underlying data is a grouped view.
C10_Original ==
    \A v \in Ids : views[v].obj.tag = "data"

\* C10 amended: when the obj passed to _shallow_copy is an instance of
\* the view's class, a subclass included, the new view wraps the object
\* that obj wraps; any other obj is wrapped as it is, a grouped view of
\* another class included.
C10_UnwrapsInstancesOfOwnClass ==
    last.op = "shallow_copy" =>
       views[last.ret].obj =
          IF last.arg.tag = "view"
               /\ views[last.arg.id].kind \in
                     IF views[last.self].kind = "KindA"
                     THEN {"KindA", "KindASub"}
                     ELSE {views[last.self].kind}
          THEN views[last.arg.id].obj
          ELSE last.arg

\* C10 witness: a view of a subclass of the copying view's class was
\* passed and the new view wraps the container that view wraps.
C10_Witness ==
    /\ last.op = "shallow_copy"
    /\ last.arg.tag = "view"
    /\ views[last.self].kind = "KindA"
    /\ views[last.arg.id].kind = "KindASub"
    /\ views[last.ret].obj = views[last.arg.id].obj
    /\ views[last.ret].obj.tag = "data"

\* C10, the other cases reached: a view of the copying view's base class
\* was passed and is wrapped itself.
C10_WitnessBaseClassWrapped ==
    /\ last.op = "shallow_copy"
    /\ last.arg.tag = "view"
    /\ views[last.self].kind = "KindASub"
    /\ views[last.arg.id].kind = "KindA"
    /\ views[last.ret].obj = last.arg

====
